---------------------------- MODULE Spec2Model ----------------------------
(***************************************************************************)
(* Model of DMA_DAC_Render_PingPong/Oscillator.h: a sine wave-table        *)
(* oscillator whose phase accumulator and phase increment are IEEE-754     *)
(* binary32 values.  The float arithmetic of setF0() and render() is       *)
(* modelled bit-exactly (round to nearest, ties to even, subnormals,       *)
(* infinities and NaN), using only integers below 2^31.                    *)
(*                                                                         *)
(* The member `float f0` of the class is declared but never written or     *)
(* read by any method, so it is not part of the model's state.             *)
(***************************************************************************)
EXTENDS Integers, Sequences, FiniteSets, TLC

(***************************************************************************)
(* binary32 values.  A value is a record                                   *)
(*    [k |-> "fin", s |-> sign, m |-> significand, e |-> exponent]         *)
(* denoting (-1)^s * m * 2^e, in canonical form: m = 0 and e = EMin        *)
(* (zero), 0 < m < 2^23 and e = EMin (subnormal), or 2^23 <= m < 2^24 and  *)
(* EMin <= e <= EMax (normal); or [k |-> "inf", s, m |-> 0, e |-> 0]; or   *)
(* the single NaN [k |-> "nan", s |-> 0, m |-> 0, e |-> 0].                *)
(***************************************************************************)
MantBits == 24
EMin == -149
EMax == 104
Hidden == 2^(MantBits - 1)
MantLim == 2^MantBits

Fin(s, m, e) == [k |-> "fin", s |-> s, m |-> m, e |-> e]
FInf(s) == [k |-> "inf", s |-> s, m |-> 0, e |-> 0]
FNaN == [k |-> "nan", s |-> 0, m |-> 0, e |-> 0]
FZero(s) == Fin(s, 0, EMin)

IsNaN(a) == a.k = "nan"
IsInf(a) == a.k = "inf"
IsFin(a) == a.k = "fin"
IsZero(a) == a.k = "fin" /\ a.m = 0

Max2(x, y) == IF x >= y THEN x ELSE y
Min2(x, y) == IF x <= y THEN x ELSE y
Xor(s, t) == (s + t) % 2

RECURSIVE BitLen(_)
BitLen(n) == IF n = 0 THEN 0 ELSE 1 + BitLen(n \div 2)

\* Round the exact value (-1)^s * (M + t) * 2^E, where 0 < t < 1 if sticky
\* and t = 0 otherwise, to the nearest binary32 value, ties to even.
\* M < 2^30; when sticky holds M has at least 27 significant bits.
RoundPack(s, M, E, sticky) ==
  IF M = 0 THEN FZero(s)
  ELSE
    LET nb == BitLen(M)
        sh == Max2(nb - MantBits, EMin - E)
    IN IF sh <= 0
       THEN LET t == Min2(MantBits - nb, E - EMin)
            IN IF E - t > EMax THEN FInf(s) ELSE Fin(s, M * 2^t, E - t)
       ELSE IF sh > nb THEN FZero(s)
       ELSE LET q == M \div 2^sh
                r == M % 2^sh
                half == 2^(sh - 1)
                up == r > half \/ (r = half /\ (sticky \/ q % 2 = 1))
                q1 == IF up THEN q + 1 ELSE q
                m1 == IF q1 = MantLim THEN Hidden ELSE q1
                e1 == IF q1 = MantLim THEN E + sh + 1 ELSE E + sh
            IN IF e1 > EMax THEN FInf(s) ELSE Fin(s, m1, e1)

\* int -> float conversion, for |n| < 2^30 (exact below 2^24)
FromInt(n) == IF n < 0 THEN RoundPack(1, -n, 0, FALSE) ELSE RoundPack(0, n, 0, FALSE)

FNeg(a) == IF IsNaN(a) THEN a ELSE [a EXCEPT !.s = 1 - a.s]

\* a nonzero finite value with its significand shifted into [2^23, 2^24)
\* (the exponent may then lie below EMin)
NormM(a) == a.m * 2^(MantBits - BitLen(a.m))
NormE(a) == a.e - (MantBits - BitLen(a.m))

\* |a| < |b| for finite or infinite a, b
MagLt(a, b) ==
  IF IsInf(a) THEN FALSE
  ELSE IF IsInf(b) THEN TRUE
  ELSE a.e < b.e \/ (a.e = b.e /\ a.m < b.m)

\* the C comparisons a < b and a >= b (false when an operand is NaN)
FLt(a, b) ==
  /\ ~IsNaN(a) /\ ~IsNaN(b)
  /\ ~(IsZero(a) /\ IsZero(b))
  /\ IF a.s = 0 /\ b.s = 0 THEN MagLt(a, b)
     ELSE IF a.s = 1 /\ b.s = 1 THEN MagLt(b, a)
     ELSE a.s = 1
FGe(a, b) == ~IsNaN(a) /\ ~IsNaN(b) /\ ~FLt(a, b)

\* a + b of two finite nonzero values, x the operand of larger magnitude
AddFin(x, y) ==
  LET d == x.e - y.e
      sh == d - 5
      M1 == IF d <= 5 THEN x.m * 2^d ELSE x.m * 32
      M2 == IF d <= 5 THEN y.m
            ELSE IF sh >= MantBits THEN 0 ELSE y.m \div 2^sh
      st == IF d <= 5 THEN FALSE
            ELSE IF sh >= MantBits THEN TRUE ELSE y.m % 2^sh # 0
      E == IF d <= 5 THEN y.e ELSE x.e - 5
  IN IF x.s = y.s THEN RoundPack(x.s, M1 + M2, E, st)
     ELSE LET D == M1 - M2 - (IF st THEN 1 ELSE 0)
          IN IF D = 0 /\ ~st THEN FZero(0) ELSE RoundPack(x.s, D, E, st)

\* the float sum a + b
FAdd(a, b) ==
  IF IsNaN(a) \/ IsNaN(b) THEN FNaN
  ELSE IF IsInf(a) THEN (IF IsInf(b) /\ b.s # a.s THEN FNaN ELSE a)
  ELSE IF IsInf(b) THEN b
  ELSE IF IsZero(a) /\ IsZero(b) THEN FZero(IF a.s = 1 /\ b.s = 1 THEN 1 ELSE 0)
  ELSE IF IsZero(a) THEN b
  ELSE IF IsZero(b) THEN a
  ELSE IF MagLt(a, b) THEN AddFin(b, a) ELSE AddFin(a, b)

\* the float difference a - b
FSub(a, b) == FAdd(a, FNeg(b))

\* product of two finite nonzero values
MulFin(a, b) ==
  LET ma == NormM(a)
      mb == NormM(b)
      a1 == ma \div 4096
      a0 == ma % 4096
      b1 == mb \div 4096
      b0 == mb % 4096
      p0 == a0 * b0
      p1 == a1 * b0 + a0 * b1
      p2 == a1 * b1
      low == p0 + (p1 % 4096) * 4096
      lo == low % MantLim
      hi == p2 + (p1 \div 4096) + (low \div MantLim)
  IN RoundPack(Xor(a.s, b.s), hi * 64 + (lo \div 2^18),
               NormE(a) + NormE(b) + 18, lo % 2^18 # 0)

\* the float product a * b
FMul(a, b) ==
  IF IsNaN(a) \/ IsNaN(b) THEN FNaN
  ELSE IF (IsInf(a) /\ IsZero(b)) \/ (IsZero(a) /\ IsInf(b)) THEN FNaN
  ELSE IF IsInf(a) \/ IsInf(b) THEN FInf(Xor(a.s, b.s))
  ELSE IF IsZero(a) \/ IsZero(b) THEN FZero(Xor(a.s, b.s))
  ELSE MulFin(a, b)

\* n further quotient bits of rem / den by long division; <<quotient, rem>>
RECURSIVE DivBits(_, _, _, _)
DivBits(q, rem, den, n) ==
  IF n = 0 THEN <<q, rem>>
  ELSE IF 2 * rem >= den THEN DivBits(2 * q + 1, 2 * rem - den, den, n - 1)
  ELSE DivBits(2 * q, 2 * rem, den, n - 1)

\* quotient of two finite nonzero values
DivFin(a, b) ==
  LET ma == NormM(a)
      mb == NormM(b)
      qr == DivBits(ma \div mb, ma % mb, mb, 27)
  IN RoundPack(Xor(a.s, b.s), qr[1], NormE(a) - NormE(b) - 27, qr[2] # 0)

\* the float quotient a / b
FDiv(a, b) ==
  IF IsNaN(a) \/ IsNaN(b) THEN FNaN
  ELSE IF IsInf(a) THEN (IF IsInf(b) THEN FNaN ELSE FInf(Xor(a.s, b.s)))
  ELSE IF IsInf(b) THEN FZero(Xor(a.s, b.s))
  ELSE IF IsZero(b) THEN (IF IsZero(a) THEN FNaN ELSE FInf(Xor(a.s, b.s)))
  ELSE IF IsZero(a) THEN FZero(Xor(a.s, b.s))
  ELSE DivFin(a, b)


\* (int)a: truncation toward zero.  A value outside the range of int, an
\* infinity or a NaN makes the conversion undefined; the outcomes are those of
\* the conversion instructions (saturation, or the "integer indefinite" value).
IntMax == 2147483647
IntMin == -IntMax - 1
\* faulty variant of TruncMag: rounds to nearest instead of truncating
RoundMag(a) ==
  IF a.e >= 0 THEN a.m * 2^a.e
  ELSE IF -a.e > MantBits THEN 0
  ELSE (a.m + 2^(-a.e - 1)) \div 2^(-a.e)
TruncMag(a) ==
  IF a.e >= 0 THEN a.m * 2^a.e
  ELSE IF -a.e >= MantBits THEN 0
  ELSE a.m \div 2^(-a.e)
ToIntSet(a) ==
  IF IsNaN(a) THEN {0, IntMin}
  ELSE IF IsInf(a) \/ a.e > 7 THEN (IF a.s = 1 THEN {IntMin} ELSE {IntMax, IntMin})
  ELSE {IF a.s = 1 THEN -TruncMag(a) ELSE TruncMag(a)}

\* 2^n as a float, EMin + 23 <= n <= EMax + 23
FPow2(n) == Fin(0, Hidden, n - (MantBits - 1))

(***************************************************************************)
(* The oscillator                                                          *)
(***************************************************************************)
TAB_LEN == 2048
TabLenF == FromInt(TAB_LEN)

\* bounds of the model
MaxRun == 10        \* render() calls in a run without frequency changes
MaxRenders == 2     \* render() calls in a run with frequency changes
MaxSets == 2        \* setF0() calls after construction

\* inputs
SampleRates == {FromInt(48000), FPow2(120)}
Freqs == {FZero(0), FromInt(440), FromInt(4800), FromInt(12000), FromInt(24000),
          FromInt(48000), FromInt(60000), FNeg(FromInt(440)), FNeg(FPow2(-16)),
          FPow2(117)}

VARIABLES
  fs,          \* float fs: audio sample rate
  idx,         \* float idx: current wave table index
  idx_inc,     \* float idx_inc: wave table index increment
  wavetable,   \* float wavetable[TAB_LEN]
  op,          \* the last operation: "ctor", "setF0" or "render"
  rd,          \* the index (int)idx the last render() read the table at
  ret,         \* the value the last render() returned
  ctorF,       \* history: f0 given to the constructor
  lastF,       \* history: the frequency of the most recent request
  valid,       \* history: every request so far was in (0, fs/2), fs > 0
  nsets,       \* history: setF0() calls after construction
  pending,     \* history: setF0() calls since the last render()
  setsBefore,  \* history: setF0() calls just before the last render()
  hist,        \* history: one record per render() call, for the calls the
               \* bounds of the model cover
  parity       \* history: parity of the number of render() calls

vars == <<fs, idx, idx_inc, wavetable, op, rd, ret, ctorF, lastF, valid,
          nsets, pending, setsBefore, hist, parity>>

\* wavetable[i] = sin(M_2PI * i / TAB_LEN): the entry is kept symbolically,
\* as its phase numerator i
SinEntry(i) == i
\* table_init(): the loop fills all TAB_LEN entries with the sine period; the
\* array is kept as its length and the waveform its entries hold
table_init == [len |-> TAB_LEN, wave |-> "sin"]
\* the entry wavetable[i], 0 <= i < len (sine is the only waveform)
TableAt(tab, i) == SinEntry(i)

\* faulty variant of IncOf: the operands of the division exchanged
IncOf_Swapped(f, sr) == FDiv(FMul(FromInt(TAB_LEN), sr), f)
\* idx_inc = TAB_LEN * f0_Hz / fs, evaluated left to right in float
IncOf(f, sr) == FDiv(FMul(FromInt(TAB_LEN), f), sr)

\* faulty variants of Wrap: > for >=; the accumulator restarted at 0 on a
\* wrap; a second wrap at the lower bound
Wrap_StrictGt(x) ==
  IF FGe(x, FromInt(TAB_LEN)) /\ x # FromInt(TAB_LEN)
  THEN FSub(x, FromInt(TAB_LEN)) ELSE x
Wrap_Reset(x) == IF FGe(x, FromInt(TAB_LEN)) THEN FromInt(0) ELSE x
Wrap_BothEnds(x) ==
  IF FGe(x, FromInt(TAB_LEN)) THEN FSub(x, FromInt(TAB_LEN))
  ELSE IF FLt(x, FromInt(0)) THEN FAdd(x, FromInt(TAB_LEN)) ELSE x
\* if (idx >= TAB_LEN) idx = idx - TAB_LEN;
Wrap(x) == IF FGe(x, FromInt(TAB_LEN)) THEN FSub(x, FromInt(TAB_LEN)) ELSE x

\* wavetable[i]; a read outside the array has no defined value
Sample(tab, i) ==
  IF i \in 0 .. tab.len - 1 THEN [def |-> TRUE, v |-> TableAt(tab, i)]
  ELSE [def |-> FALSE, v |-> 0]

\* the request f lies in the documented range (0, fs/2)
ValidFreq(f, sr) ==
  FLt(FZero(0), sr) /\ FLt(FZero(0), f) /\ FLt(f, FDiv(sr, FromInt(2)))

\* Oscillator(sample_rate, f0) : fs(sample_rate), idx(0) { table_init(); setF0(f0); }
Init ==
  \E sr \in SampleRates, f \in Freqs :
    /\ fs = sr
    /\ idx = FromInt(0)
    /\ wavetable = table_init
    /\ idx_inc = IncOf(f, sr)
    /\ op = "ctor"
    /\ rd = 0
    /\ ret = [def |-> FALSE, v |-> 0]
    /\ ctorF = f
    /\ lastF = f
    /\ valid = ValidFreq(f, sr)
    /\ nsets = 0
    /\ pending = 0
    /\ setsBefore = 0
    /\ hist = <<>>
    /\ parity = 0

\* faulty variants of SetF0: the phase restarted at 0; the increment
\* accumulated onto the previous one
SetF0_ResetPhase(f) ==
  /\ nsets < MaxSets
  /\ Len(hist) < MaxRenders
  /\ idx_inc' = IncOf(f, fs)
  /\ idx' = FromInt(0)
  /\ op' = "setF0"
  /\ lastF' = f
  /\ valid' = (valid /\ ValidFreq(f, fs))
  /\ nsets' = nsets + 1
  /\ pending' = pending + 1
  /\ UNCHANGED <<fs, wavetable, rd, ret, ctorF, setsBefore, hist, parity>>
SetF0_Accumulate(f) ==
  /\ nsets < MaxSets
  /\ Len(hist) < MaxRenders
  /\ idx_inc' = FAdd(idx_inc, IncOf(f, fs))
  /\ op' = "setF0"
  /\ lastF' = f
  /\ valid' = (valid /\ ValidFreq(f, fs))
  /\ nsets' = nsets + 1
  /\ pending' = pending + 1
  /\ UNCHANGED <<fs, idx, wavetable, rd, ret, ctorF, setsBefore, hist, parity>>
\* void setF0(float f0_Hz)
SetF0(f) ==
  /\ nsets < MaxSets
  /\ Len(hist) < MaxRenders
  /\ idx_inc' = IncOf(f, fs)
  /\ op' = "setF0"
  /\ lastF' = f
  /\ valid' = (valid /\ ValidFreq(f, fs))
  /\ nsets' = nsets + 1
  /\ pending' = pending + 1
  /\ UNCHANGED <<fs, idx, wavetable, rd, ret, ctorF, setsBefore, hist, parity>>

\* The bound on the render() calls of a run.  It cuts the runs whose
\* accumulator still moves; a run whose accumulator has reached a fixed point
\* (render() leaves idx as it is) goes on for ever, without new history.
RenderBound == IF nsets = 0 THEN MaxRun ELSE MaxRenders
\* faulty variant of Render: the table read before the accumulator is advanced
Render_ReadFirst ==
  /\ \E sum \in {FAdd(idx, idx_inc)} : \E nxt \in {Wrap(sum)} :
        /\ Len(hist) < RenderBound \/ nxt = idx
        /\ idx' = nxt
        /\ \E i \in ToIntSet(idx) :
             /\ rd' = i
             /\ ret' = Sample(wavetable, i)
             /\ hist' = IF Len(hist) < RenderBound
                        THEN Append(hist, [idx |-> nxt,
                                           wrapped |-> FGe(sum, FromInt(TAB_LEN))])
                        ELSE hist
  /\ parity' = 1 - parity
  /\ op' = "render"
  /\ setsBefore' = pending
  /\ pending' = 0
  /\ UNCHANGED <<fs, idx_inc, wavetable, ctorF, lastF, valid, nsets>>
\* float render()
Render ==
  /\ \E sum \in {FAdd(idx, idx_inc)} : \E nxt \in {Wrap(sum)} :
        /\ Len(hist) < RenderBound \/ nxt = idx
        /\ idx' = nxt
        /\ \E i \in ToIntSet(nxt) :
             /\ rd' = i
             /\ ret' = Sample(wavetable, i)
             /\ hist' = IF Len(hist) < RenderBound
                        THEN Append(hist, [idx |-> nxt,
                                           wrapped |-> FGe(sum, FromInt(TAB_LEN))])
                        ELSE hist
  /\ parity' = 1 - parity
  /\ op' = "render"
  /\ setsBefore' = pending
  /\ pending' = 0
  /\ UNCHANGED <<fs, idx_inc, wavetable, ctorF, lastF, valid, nsets>>

Next == Render \/ \E f \in Freqs : SetF0(f)

Spec == Init /\ [][Next]_vars

\* a run in which the frequency is never changed after construction; the
\* audio driver keeps calling render()
RunNext == nsets = 0 /\ Render
RunSpec == Init /\ [][RunNext]_vars /\ WF_vars(RunNext)

InTable(i) == i \in 0 .. wavetable.len - 1
InRange(x) == FGe(x, FZero(0)) /\ FLt(x, TabLenF)

(***************************************************************************)
(* Properties                                                              *)
(***************************************************************************)
NRenders == Len(hist)
\* the accumulator after k render() calls
IdxAt(k) == IF k = 0 THEN FromInt(0) ELSE hist[k].idx
\* the number of wraps made by the render() calls a .. b
WrapsIn(a, b) == Cardinality({k \in a .. b : hist[k].wrapped})
FLe(a, b) == FGe(b, a)
\* N * f / fs in float, as the documentation of setF0 writes it
NfOverFs(f) == FDiv(FMul(FromInt(2048), f), fs)

\* C1: with fs > 0 and every requested frequency in (0, fs/2), after every
\* render() the accumulator satisfies 0 <= idx < N and the table is read at
\* an index in 0..N-1.
C1_IndexInRange ==
  (valid /\ NRenders >= 1) =>
     /\ InRange(idx) /\ InTable(rd)
     /\ \A k \in 1 .. NRenders : InRange(hist[k].idx)

\* C2: setF0 changes only idx_inc (idx, the wave table and fs are left
\* alone); render() changes only idx (idx_inc, the wave table and fs are
\* left alone).
C2_Frame ==
  [][ /\ (op' = "setF0" => idx' = idx /\ wavetable' = wavetable /\ fs' = fs)
      /\ (op' = "render" =>
            idx_inc' = idx_inc /\ wavetable' = wavetable /\ fs' = fs) ]_vars
C2_Witness ==
  /\ op = "render" /\ setsBefore >= 1 /\ NRenders >= 2
  /\ idx # FromInt(0) /\ idx_inc # IncOf(ctorF, fs)

\* C3: setF0(f) replaces the increment by N*f/fs whatever it was before, and
\* the next render() advances the accumulator by the increment of the most
\* recent request (then wraps once), however many requests preceded it.
C3_LastRequestWins ==
  [][ /\ (op' = "setF0" => idx_inc' = NfOverFs(lastF'))
      /\ (op' = "render" =>
            /\ idx' = (LET x == FAdd(idx, NfOverFs(lastF))
                       IN IF FGe(x, TabLenF) THEN FSub(x, TabLenF) ELSE x)
            /\ lastF' = lastF) ]_vars
C3_Witness ==
  /\ op = "render" /\ setsBefore >= 2 /\ NRenders >= 2
  /\ idx_inc # IncOf(ctorF, fs)
  /\ hist[NRenders].idx # hist[NRenders - 1].idx

ScenarioA == fs = FromInt(48000) /\ ctorF = FromInt(440) /\ nsets = 0
\* C5 as stated: the first render() of scenario A reads table[19].
C5_FirstReadIs19 == (ScenarioA /\ NRenders = 1) => rd = 19
\* C5 amended: in scenario A the increment lies between 18 and 19, and the
\* first render() truncates the accumulator 0 + idx_inc to index 18 and
\* returns table[18].
C5_FirstReadIs18 ==
  /\ ScenarioA => FLt(FromInt(18), idx_inc) /\ FLt(idx_inc, FromInt(19))
  /\ (ScenarioA /\ NRenders >= 1) => hist[1].idx = idx_inc
  /\ (ScenarioA /\ NRenders = 1) =>
        rd = 18 /\ ret = [def |-> TRUE, v |-> TableAt(wavetable, 18)]
C5_Witness == ScenarioA /\ NRenders = 1 /\ op = "render" /\ rd = 18

\* Scenario C: constructed with sample_rate = 48000, f0 = 24000, no setF0
ScenarioC == fs = FromInt(48000) /\ ctorF = FromInt(24000) /\ nsets = 0
\* C6: in scenario C idx_inc = 1024 and the render() calls alternate between
\* table[1024] and table[0], starting with table[1024]; the accumulator is
\* 1024 after an odd number of calls and 0 after an even number.
C6_NyquistAlternates ==
  ScenarioC =>
    /\ idx_inc = FromInt(1024)
    /\ \A k \in 1 .. NRenders :
         hist[k].idx = (IF k % 2 = 1 THEN FromInt(1024) ELSE FromInt(0))
    /\ NRenders >= 1 =>
         /\ idx = hist[NRenders].idx
         /\ rd = (IF NRenders % 2 = 1 THEN 1024 ELSE 0)
         /\ ret = [def |-> TRUE, v |-> TableAt(wavetable, rd)]
C6_Witness ==
  /\ ScenarioC /\ NRenders >= 4 /\ op = "render" /\ rd = 0
  /\ hist[NRenders - 1].idx = FromInt(1024)

\* C7: constructed with f0 = 0 and fs > 0, and setF0 never called: idx_inc
\* is 0, the accumulator stays 0 and every render() returns table[0].
C7_ZeroFrequencyStays ==
  (ctorF = FromInt(0) /\ FLt(FromInt(0), fs) /\ nsets = 0) =>
    /\ idx_inc = FromInt(0)
    /\ idx = FromInt(0)
    /\ \A k \in 1 .. NRenders : hist[k].idx = FromInt(0)
    /\ NRenders >= 1 => rd = 0 /\ ret = [def |-> TRUE, v |-> TableAt(wavetable, 0)]
C7_Witness == ctorF = FromInt(0) /\ nsets = 0 /\ NRenders >= 3 /\ op = "render"

\* a render() has left idx >= N and read the table outside 0..N-1
OutOfBounds == NRenders >= 1 /\ FGe(idx, TabLenF) /\ ~InTable(rd) /\ ~ret.def
\* C8 as stated: with idx_inc >= N (f0 >= fs) and the frequency left alone,
\* some render() leaves idx >= N and reads out of bounds.  (With f0 = fs the
\* accumulator is at the fixed point 0: render() is called for ever and
\* never reads out of bounds.)
C8_AtOrBeyondFsFails == FGe(idx_inc, TabLenF) ~> OutOfBounds
\* C8 amended: with idx_inc > N (f0 > fs) and the frequency left alone, some
\* render() leaves idx >= N and reads out of bounds; with idx_inc = N exactly
\* (f0 = fs, N*f0 finite) the single subtraction brings the accumulator back
\* to 0 on every render() and table[0] is read.
C8_BeyondFsFails ==
  /\ FLt(TabLenF, idx_inc) ~> OutOfBounds
  /\ [](idx_inc = TabLenF =>
          /\ idx = FromInt(0)
          /\ \A k \in 1 .. NRenders : hist[k].idx = FromInt(0)
          /\ NRenders >= 1 => rd = 0 /\ ret = [def |-> TRUE, v |-> TableAt(wavetable, 0)])
C8_Witness == FLt(TabLenF, idx_inc) /\ IsFin(idx_inc) /\ OutOfBounds /\ NRenders >= 2

\* fs = P * f0 exactly, for positive finite fs and f0
ExactRatio(P) ==
  /\ IsFin(fs) /\ IsFin(ctorF) /\ fs.s = 0 /\ ctorF.s = 0
  /\ fs.m > 0 /\ ctorF.m > 0
  /\ LET d == ctorF.e - fs.e
     IN IF d >= 0 THEN d <= 7 /\ P * ctorF.m * 2^d = fs.m
        ELSE -d <= 7 /\ fs.m * 2^(-d) = P * ctorF.m
\* every P consecutive render() calls wrap exactly once and bring the
\* accumulator back to its value before the first of them
PeriodP(P) ==
  \A k \in 0 .. NRenders - P :
     IdxAt(k + P) = IdxAt(k) /\ WrapsIn(k + 1, k + P) = 1
C10_AlwaysDecreases ==
  [][ (op' = "render" /\ FLt(idx_inc, FromInt(0)) /\ IsFin(idx)) =>
        /\ FLt(idx', idx)
        /\ (FLt(idx, FromInt(0)) => FLt(idx', FromInt(0)))
        /\ (FLe(idx', FromInt(-1)) => rd' < 0) ]_vars
\* C10 amended: with a negative increment and a finite accumulator, render()
\* never increases the accumulator (it decreases unless the float addition
\* absorbs the increment), applies no wrap at the lower bound (a negative
\* accumulator stays negative; constructed with a negative increment, idx is
\* negative from the first render() on), and an accumulator <= -1 gives a
\* negative table index, outside 0..N-1.
C10_NoLowerWrap ==
  /\ [][ (op' = "render" /\ FLt(idx_inc, FromInt(0)) /\ IsFin(idx)) =>
           /\ FLe(idx', idx)
           /\ (FLt(idx, FromInt(0)) => FLt(idx', FromInt(0)))
           /\ (FLe(idx', FromInt(-1)) => rd' < 0 /\ ~ret'.def) ]_vars
  /\ []((nsets = 0 /\ FLt(idx_inc, FromInt(0)) /\ NRenders >= 1) =>
          FLt(idx, FromInt(0)))
C10_Witness ==
  /\ op = "render" /\ FLt(idx_inc, FromInt(0)) /\ NRenders >= 2
  /\ FLe(idx, FromInt(-1)) /\ rd < 0
  /\ FLt(hist[NRenders - 1].idx, FromInt(0))
=============================================================================
